---- MODULE Spec2Model ----
(***************************************************************************)
(* A model of parking_auction_monitor.py: a polling job that fetches a     *)
(* listing page, matches rows against two-term search combinations,       *)
(* drops rows already recorded in found_results.json or older than 14     *)
(* days, writes subject.txt / body.txt and records what it has sent.      *)
(*                                                                         *)
(* Text that the code inspects character by character (titles, search     *)
(* terms, date cells, labels) is a sequence of one-character strings.     *)
(* Text that is only concatenated and compared (URLs) is a string.        *)
(* A datetime is [ord, sec]: the proleptic Gregorian ordinal of its day   *)
(* (datetime.toordinal) and the second of that day.                       *)
(***************************************************************************)
EXTENDS Integers, Sequences, FiniteSets, TLC

(***************************************************************************)
(* Characters and strings                                                  *)
(***************************************************************************)
UpperChars ==
  <<"A","B","C","D","E","F","G","H","I","J","K","L","M",
    "N","O","P","Q","R","S","T","U","V","W","X","Y","Z">>

LowerChars ==
  <<"a","b","c","d","e","f","g","h","i","j","k","l","m",
    "n","o","p","q","r","s","t","u","v","w","x","y","z">>

DigitChars == <<"0","1","2","3","4","5","6","7","8","9">>

\* The characters of the model in code point order (ASCII).
CharOrder ==
  <<" ", "'", "(", ")", ",", "-", ".", "/">> \o DigitChars \o UpperChars \o LowerChars

CodePoint(c) == CHOOSE i \in 1..Len(CharOrder) : CharOrder[i] = c

\* str.lower() on one character.
LowerChar(c) ==
  IF \E i \in 1..Len(UpperChars) : UpperChars[i] = c
  THEN LowerChars[CHOOSE i \in 1..Len(UpperChars) : UpperChars[i] = c]
  ELSE c

\* str.lower()
Lower(s) == [i \in 1..Len(s) |-> LowerChar(s[i])]

\* Python's `sub in s` on strings.
Contains(s, sub) ==
  \E i \in 0..(Len(s) - Len(sub)) : SubSeq(s, i + 1, i + Len(sub)) = sub

\* Python's `<` on strings: lexicographic by code point.
StrLess(a, b) ==
  \E k \in 1..(Len(b)) :
     /\ k <= Len(a) + 1
     /\ \A j \in 1..(k - 1) : a[j] = b[j]
     /\ \/ k = Len(a) + 1
        \/ (k <= Len(a) /\ CodePoint(a[k]) < CodePoint(b[k]))

RECURSIVE Join(_, _)
\* sep.join(parts)
Join(sep, parts) ==
  IF parts = <<>> THEN <<>>
  ELSE IF Len(parts) = 1 THEN parts[1]
  ELSE parts[1] \o sep \o Join(sep, Tail(parts))

CommaSpace == <<",", " ">>

(***************************************************************************)
(* Dates: datetime.strptime(date_str, '%d.%m.%Y'), timedelta, comparison   *)
(***************************************************************************)
None == [ord |-> 0, sec |-> 0]   \* no datetime has ordinal 0

IsDigit(c) == \E i \in 1..Len(DigitChars) : DigitChars[i] = c

DigitValue(c) == (CHOOSE i \in 1..Len(DigitChars) : DigitChars[i] = c) - 1

RECURSIVE ToInt(_)
ToInt(s) == IF s = <<>> THEN 0 ELSE ToInt(SubSeq(s, 1, Len(s) - 1)) * 10 + DigitValue(s[Len(s)])

AllDigits(s) == \A i \in 1..Len(s) : IsDigit(s[i])

IsLeap(y) == (y % 4 = 0) /\ ((y % 100 # 0) \/ (y % 400 = 0))

DaysInMonth(y, m) ==
  IF m = 2 THEN (IF IsLeap(y) THEN 29 ELSE 28)
  ELSE IF m \in {4, 6, 9, 11} THEN 30 ELSE 31

RECURSIVE DaysBeforeMonth(_, _)
DaysBeforeMonth(y, m) == IF m = 1 THEN 0 ELSE DaysBeforeMonth(y, m - 1) + DaysInMonth(y, m - 1)

DaysBeforeYear(y) == (y - 1) * 365 + ((y - 1) \div 4) - ((y - 1) \div 100) + ((y - 1) \div 400)

\* date.toordinal(): 01.01.0001 is day 1
ToOrdinal(y, m, d) == DaysBeforeYear(y) + DaysBeforeMonth(y, m) + d

\* The positions of the dots of s.
DotsOf(s) == {i \in 1..Len(s) : s[i] = "."}

\* parse_date: a datetime at midnight, or None when strptime raises ValueError.
parse_date(date_str) ==
  IF Cardinality(DotsOf(date_str)) # 2 THEN None
  ELSE
    LET p1 == CHOOSE i \in DotsOf(date_str) : \A j \in DotsOf(date_str) : i <= j
        p2 == CHOOSE i \in DotsOf(date_str) : \A j \in DotsOf(date_str) : j <= i
        ds == SubSeq(date_str, 1, p1 - 1)
        ms == SubSeq(date_str, p1 + 1, p2 - 1)
        ys == SubSeq(date_str, p2 + 1, Len(date_str))
    IN IF /\ Len(ds) \in 1..2 /\ AllDigits(ds)
          /\ Len(ms) \in 1..2 /\ AllDigits(ms)
          /\ Len(ys) = 4 /\ AllDigits(ys)
          /\ ToInt(ms) \in 1..12
          /\ ToInt(ys) >= 1
          /\ ToInt(ds) >= 1
          /\ ToInt(ds) <= DaysInMonth(ToInt(ys), ToInt(ms))
       THEN [ord |-> ToOrdinal(ToInt(ys), ToInt(ms), ToInt(ds)), sec |-> 0]
       ELSE None

\* datetime >= datetime
DateGE(a, b) == (a.ord > b.ord) \/ (a.ord = b.ord /\ a.sec >= b.sec)

\* datetime - timedelta(days=n)
MinusDays(t, n) == [ord |-> t.ord - n, sec |-> t.sec]

\* datetime.min
DatetimeMin == [ord |-> 1, sec |-> 0]

\* The days of the 14-day recency window: timedelta(days=14)
WindowDays == 14

(***************************************************************************)
(* Configuration                                                           *)
(***************************************************************************)
base_url == "https://www.primaria-iasi.ro"

sNr33 == <<"N","r","."," ","3","3">>
s964B == <<"9","6","4","B">>
sTudorNeculai == <<"T","u","d","o","r"," ","N","e","c","u","l","a","i">>
s971B == <<"9","7","1","B">>
s971A == <<"9","7","1","A">>

search_terms == << <<sNr33, s964B>>, <<sTudorNeculai, s971B>>, <<sTudorNeculai, s971A>> >>

(***************************************************************************)
(* Extractor and Matcher: one table row to at most one result              *)
(***************************************************************************)
RECURSIVE Strip(_)
\* str.strip() (the whitespace of the model is the space)
Strip(s) ==
  IF s = <<>> THEN s
  ELSE IF s[1] = " " THEN Strip(Tail(s))
  ELSE IF s[Len(s)] = " " THEN Strip(SubSeq(s, 1, Len(s) - 1))
  ELSE s

\* f"('{term1}', '{term2}')"
Label(term1, term2) ==
  <<"(", "'">> \o term1 \o <<"'", ",", " ", "'">> \o term2 \o <<"'", ")">>

\* ComboMatches with `or` for `and`.
ComboMatches_either(title, combo) ==
  \/ Contains(Lower(title), Lower(combo[1]))
  \/ Contains(Lower(title), Lower(combo[2]))

\* Both terms of the pair are in the lowered title.
ComboMatches(title, combo) ==
  /\ Contains(Lower(title), Lower(combo[1]))
  /\ Contains(Lower(title), Lower(combo[2]))

RECURSIVE matching_combos(_, _)
\* The labels of the pairs of terms that match title, in the order of terms.
matching_combos(title, terms) ==
  IF terms = <<>> THEN <<>>
  ELSE (IF ComboMatches(title, terms[1])
        THEN <<Label(terms[1][1], terms[1][2])>> ELSE <<>>)
       \o matching_combos(title, Tail(terms))

\* A row of the table is [ncols, anchor, href, text, date_text]: the number of
\* its td cells, whether its first cell holds an anchor ("href": with an href
\* attribute, "nohref": without one, "none": no anchor), the text of the
\* anchor or of the cell, and the text of the second cell.
RowTitle(row) == Strip(row.text)

\* link['href'] if link else None, then f"{base_url}{pdf_url}"
FullPdfUrl(row) == base_url \o (IF row.anchor = "href" THEN row.href ELSE "None")

\* link['href'] on an anchor without the attribute raises KeyError.
RowRaises(row) == row.ncols >= 2 /\ row.anchor = "nohref"

RowResult(row, terms) ==
  [title |-> RowTitle(row),
   pdf_url |-> FullPdfUrl(row),
   date_str |-> Strip(row.date_text),
   date |-> parse_date(Strip(row.date_text)),
   matched_terms |-> matching_combos(RowTitle(row), terms)]

RowKept(row, terms) == row.ncols >= 2 /\ matching_combos(RowTitle(row), terms) # <<>>

RECURSIVE ExtractResults(_, _)
\* The loop over the rows: the results list.
ExtractResults(rows, terms) ==
  IF rows = <<>> THEN <<>>
  ELSE (IF RowKept(rows[1], terms) THEN <<RowResult(rows[1], terms)>> ELSE <<>>)
       \o ExtractResults(Tail(rows), terms)

\* Some row raises while the loop runs.
ExtractRaises(rows) == \E i \in 1..Len(rows) : RowRaises(rows[i])

(***************************************************************************)
(* Sort, dedup and recency filter                                          *)
(***************************************************************************)
SortKey(r) == IF r.date # None THEN r.date ELSE DatetimeMin

\* x goes after the elements of s (sorted, descending) whose key is >= its own.
InsertDesc(s, x) ==
  LET n == Cardinality({i \in 1..Len(s) : DateGE(SortKey(s[i]), SortKey(x))})
  IN SubSeq(s, 1, n) \o <<x>> \o SubSeq(s, n + 1, Len(s))

RECURSIVE SortResults(_)
\* results.sort(key=..., reverse=True): stable, newest first
SortResults(results) ==
  IF results = <<>> THEN <<>>
  ELSE InsertDesc(SortResults(SubSeq(results, 1, Len(results) - 1)), results[Len(results)])

RECURSIVE FilterSeq(_, _)
FilterSeq(s, keep) ==
  IF s = <<>> THEN <<>>
  ELSE (IF s[1] \in keep THEN <<s[1]>> ELSE <<>>) \o FilterSeq(Tail(s), keep)

Elems(s) == {s[i] : i \in 1..Len(s)}

\* NewResults without the test against the store.
NewResults_nofilter(results, old) == results

\* [result for result in results if result['pdf_url'] not in old_results]
NewResults(results, old) ==
  FilterSeq(results, {r \in Elems(results) : r.pdf_url \notin DOMAIN old})

\* IsRecent with > for >=.
IsRecent_strict(r, cutoff) == r.date # None /\ ~DateGE(cutoff, r.date)

\* r['date'] and r['date'] >= two_weeks_ago
IsRecent(r, cutoff) == r.date # None /\ DateGE(r.date, cutoff)

\* [r for r in new_results if r['date'] and r['date'] >= two_weeks_ago]
RecentNewResults(new_results, cutoff) ==
  FilterSeq(new_results, {r \in Elems(new_results) : IsRecent(r, cutoff)})

\* Lines 136-162: the results list, sorted.
SortedResults(rows, terms) == SortResults(ExtractResults(rows, terms))

\* Lines 164-168 on the sorted results.
SelectResults(results, old, cutoff) == RecentNewResults(NewResults(results, old), cutoff)

(***************************************************************************)
(* Formatter and State Writer                                              *)
(***************************************************************************)
RECURSIVE SortedLabels(_)
\* sorted(a set of strings)
SortedLabels(S) ==
  IF S = {} THEN <<>>
  ELSE LET m == CHOOSE x \in S : \A y \in S \ {x} : StrLess(x, y)
       IN <<m>> \o SortedLabels(S \ {m})

\* all_matched_terms: the union of the labels of the rows
AllMatchedTerms(rows) == UNION {Elems(rows[i].matched_terms) : i \in 1..Len(rows)}

\* f"[{', '.join(sorted(all_matched_terms))}]"
SubjectContent(rows) == <<"[">> \o Join(CommaSpace, SortedLabels(AllMatchedTerms(rows))) \o <<"]">>

\* The HTML body: the count of its header and, for each row in order, the
\* title, the link target, the date text and the joined labels it prints.
BodyContent(rows) ==
  [found |-> Len(rows),
   entries |-> [i \in 1..Len(rows) |->
                  [title |-> rows[i].title,
                   href |-> rows[i].pdf_url,
                   date |-> rows[i].date_str,
                   matched |-> Join(CommaSpace, rows[i].matched_terms)]]]

\* The offset of Europe/Bucharest from the host clock, in seconds: the host
\* runs on UTC and the dates of the model are in winter (EET = UTC+2).
BucharestOffset == 7200

SecondsPerDay == 86400

\* t + timedelta(seconds=n), 0 <= n < SecondsPerDay
PlusSeconds(t, n) ==
  IF t.sec + n >= SecondsPerDay
  THEN [ord |-> t.ord + 1, sec |-> t.sec + n - SecondsPerDay]
  ELSE [ord |-> t.ord, sec |-> t.sec + n]

\* The year, month and day of an ordinal (date.fromordinal).
YearOf(n) == CHOOSE y \in (n \div 366)..((n \div 365) + 1) :
                DaysBeforeYear(y) < n /\ n <= DaysBeforeYear(y + 1)

MonthOf(n) == CHOOSE m \in 1..12 :
                 LET doy == n - DaysBeforeYear(YearOf(n))
                 IN /\ DaysBeforeMonth(YearOf(n), m) < doy
                    /\ doy <= DaysBeforeMonth(YearOf(n), m) + DaysInMonth(YearOf(n), m)

DayOf(n) == n - DaysBeforeYear(YearOf(n)) - DaysBeforeMonth(YearOf(n), MonthOf(n))

Digit(k) == DigitChars[k + 1]

TwoDigits(k) == <<Digit((k \div 10) % 10), Digit(k % 10)>>

FourDigits(k) == TwoDigits(k \div 100) \o TwoDigits(k % 100)

\* strftime('%d.%m.%Y %H:%M:%S')
FormatTimestamp(t) ==
  TwoDigits(DayOf(t.ord)) \o <<".">> \o TwoDigits(MonthOf(t.ord)) \o <<".">>
    \o FourDigits(YearOf(t.ord)) \o <<" ">>
    \o TwoDigits(t.sec \div 3600) \o <<":">> \o TwoDigits((t.sec \div 60) % 60)
    \o <<":">> \o TwoDigits(t.sec % 60)

\* datetime.now(BUCHAREST_TZ).strftime(...) when the host clock reads t
SentAt(t) == FormatTimestamp(PlusSeconds(t, BucharestOffset))

EmptyDict == [k \in {} |-> 0]

\* d[key] = value
DictPut(d, key, value) ==
  [k \in (DOMAIN d) \cup {key} |-> IF k = key THEN value ELSE d[k]]

\* MarkSent into a fresh dict: the records already in the store are dropped.
MarkSent_onlyNew(old, rows, sent_at) ==
  [k \in {rows[i].pdf_url : i \in 1..Len(rows)} |->
     LET i == CHOOSE j \in 1..Len(rows) :
                 rows[j].pdf_url = k /\ \A m \in (j + 1)..Len(rows) : rows[m].pdf_url # k
     IN [title |-> rows[i].title, date |-> rows[i].date_str, sent_at |-> sent_at]]

RECURSIVE MarkSent(_, _, _)
\* for result in recent_new_results: old_results[result['pdf_url']] = {...}
MarkSent(old, rows, sent_at) ==
  IF rows = <<>> THEN old
  ELSE MarkSent(DictPut(old, rows[1].pdf_url,
                        [title |-> rows[1].title, date |-> rows[1].date_str,
                         sent_at |-> sent_at]),
                Tail(rows), sent_at)

(***************************************************************************)
(* Files.  found_results.json is absent, holds a JSON object (data), or    *)
(* holds text json.load rejects (a write that failed after the file was    *)
(* opened, and so truncated).  subject.txt and body.txt are absent, hold   *)
(* what was written, or hold a partial write.                              *)
(***************************************************************************)
AbsentFile == [state |-> "absent", data |-> EmptyDict]

CorruptFile == [state |-> "corrupt", data |-> EmptyDict]

JsonFile(d) == [state |-> "json", data |-> d]

NoArtifact == [state |-> "absent", content |-> <<>>]

PartialArtifact == [state |-> "partial", content |-> <<>>]

Artifact(c) == [state |-> "written", content |-> c]

\* load_sent_results: the object of the file when it is there and the read
\* succeeds (ok), else the empty dict.
load_sent_results(file, ok) == IF file.state = "json" /\ ok THEN file.data ELSE EmptyDict

\* The outcomes of the read: os.path.exists is false (no error), json.load
\* raises on a corrupt file, and any read may fail.
ReadOutcomes(file) ==
  IF file.state = "absent" THEN {TRUE}
  ELSE IF file.state = "corrupt" THEN {FALSE}
  ELSE BOOLEAN

\* The states a failed open(name, 'w') + write can leave a file in: untouched
\* (open failed) or truncated (the write failed).
FailedWrite(file, truncated) == {file, truncated}

\* The keys a store file holds.
KeysOf(file) == IF file.state = "json" THEN DOMAIN file.data ELSE {}

(***************************************************************************)
(* Inputs: the rows a listing page may hold, and the bounds                *)
(***************************************************************************)
MaxRuns == 2     \* runs started
MaxTicks == 1    \* seconds the clock advances

d15Jan == <<"1","5",".","0","1",".","2","0","2","6">>
d01Jan == <<"0","1",".","0","1",".","2","0","2","6">>
d02JanShort == <<"2",".","1",".","2","0","2","6">>
d31Dec == <<"3","1",".","1","2",".","2","0","2","5">>
d30Feb == <<"3","0",".","0","2",".","2","0","2","6">>

\* The clock when the model starts: 15.01.2026 00:00:00, so that a row dated
\* 01.01.2026 is exactly 14 days old, and 14 days and 1 second old a tick later.
StartClock == parse_date(d15Jan)

\* str.upper(), to write the titles of the inputs
Upper(s) ==
  [i \in 1..Len(s) |->
     IF \E k \in 1..Len(LowerChars) : LowerChars[k] = s[i]
     THEN UpperChars[CHOOSE k \in 1..Len(LowerChars) : LowerChars[k] = s[i]]
     ELSE s[i]]

Row(n, a, h, t, d) == [ncols |-> n, anchor |-> a, href |-> h, text |-> t, date_text |-> d]

rowA1 == Row(2, "href", "/a.pdf", <<" ">> \o sNr33 \o <<" ">> \o s964B, d01Jan)
rowA2 == Row(2, "href", "/a.pdf", Lower(sNr33) \o <<" ", "-", " ">> \o Lower(s964B), d15Jan)
rowN1 == Row(3, "none", "", sTudorNeculai \o <<" ">> \o s971B \o <<" ">> \o s971A,
             d15Jan \o <<" ">>)
rowN2 == Row(2, "none", "", Upper(sTudorNeculai) \o <<" ">> \o Lower(s971A), d02JanShort)
rowU == Row(2, "href", "/b.pdf", sNr33 \o <<" ">> \o s964B, d30Feb)
rowOld == Row(2, "href", "/b.pdf", sNr33 \o <<" ">> \o s964B, d31Dec)
rowOne == Row(2, "href", "/c.pdf", sTudorNeculai \o <<" ">> \o s964B, d15Jan)
rowShort == Row(1, "href", "/c.pdf", sNr33 \o <<" ">> \o s964B, d15Jan)
rowBad == Row(2, "nohref", "", sNr33 \o <<" ">> \o s964B, d15Jan)

\* A fetched page: whether it holds the table fisierePMI, and the rows the
\* loop over the table visits.
NoTablePage == [table |-> FALSE, rows |-> <<>>]

TablePage(rows) == [table |-> TRUE, rows |-> rows]

\* The pages of the listing over the runs of Spec.
SitePages ==
  {NoTablePage, TablePage(<<rowBad>>), TablePage(<<rowU, rowOld>>),
   TablePage(<<rowA1>>), TablePage(<<rowU, rowA2>>), TablePage(<<rowN1>>),
   TablePage(<<rowN2>>), TablePage(<<rowA1, rowN1>>)}

\* The pages of a longer sequence of runs.
FewPages ==
  {NoTablePage, TablePage(<<rowBad>>), TablePage(<<rowU>>),
   TablePage(<<rowA2>>), TablePage(<<rowN1>>), TablePage(<<rowN2>>)}

\* The pages of two runs that interleave.
ConcPages == FewPages \ {TablePage(<<rowN2>>)}

\* The titles the Matcher is tried on: one or two of these pieces.
Pieces ==
  {sNr33, Lower(sNr33), Upper(sNr33), s964B, Lower(s964B), SubSeq(s964B, 2, 4),
   sTudorNeculai, Upper(sTudorNeculai), SubSeq(sTudorNeculai, 1, 5),
   s971B, Lower(s971A), s971B \o <<"/">> \o s971A}

MatchTitles == Pieces \cup {a \o <<" ">> \o b : a \in Pieces, b \in Pieces}

MatchPages ==
  {NoTablePage, TablePage(<<rowBad>>)}
    \cup {TablePage(<<Row(n, "href", "/m.pdf", t, d15Jan)>>) : n \in 1..2, t \in MatchTitles}
    \cup {TablePage(<<rowShort, rowOne>>), TablePage(<<rowOne, rowA2, rowN1>>)}

\* The configurations the Matcher is tried with.
Configs ==
  {search_terms,
   <<>>,
   << <<sTudorNeculai, s971A>>, <<sNr33, s964B>> >>,
   << <<s964B, sNr33>>, <<sNr33, sNr33>> >>}

AllPages == SitePages \cup FewPages \cup ConcPages \cup MatchPages

\* SortedResults of every page under every configuration.
ResultsTable ==
  [c \in Configs |-> [pg \in AllPages |-> SortedResults(pg.rows, c)]]

Procs == {"A", "B"}

(***************************************************************************)
(* State                                                                   *)
(***************************************************************************)
VARIABLES
  clock,               \* the host clock, datetime.now()
  terms,               \* the search_terms the job is configured with
  results_file,        \* found_results.json
  subject_file,        \* subject.txt
  body_file,           \* body.txt
  runs,                \* how many runs have started
  pc,                  \* per process: where its run is
  old_results,         \* scrape_parking_auctions: old_results
  two_weeks_ago,       \* scrape_parking_auctions: two_weeks_ago
  results,             \* scrape_parking_auctions: results, sorted
  recent_new_results,  \* scrape_parking_auctions: recent_new_results
  timestamp,           \* format_results_as_html: timestamp
  sent_results,        \* format_results_as_html: old_results (the reload)
  exit_status,         \* the exit status of the process, -1 while it runs
  \* what an observer of a run records; the code does not read these
  page,                \* the page the run fetched
  outcome,             \* how the run ended (the line it logged)
  at_start,            \* the three files and the clock when the run started
  load_ok,             \* the read of line 124 succeeded
  reload_ok,           \* the read of line 107 succeeded
  filter_time,         \* the clock when line 168 ran
  concurrent,          \* another run was executing during this run
  overwritten,         \* the keys the save of line 110 removed from the store
  last,                \* the run that ended last, if it sent a notification
  persisted            \* the keys that runs that have ended wrote to the store

files == <<results_file, subject_file, body_file>>
locals == <<old_results, two_weeks_ago, results, recent_new_results, timestamp, sent_results>>
observed == <<page, outcome, at_start, load_ok, reload_ok, filter_time, overwritten>>
history == <<last, persisted>>
vars == <<clock, terms, files, runs, pc, locals, exit_status, observed, concurrent, history>>

NoFiles == [results |-> AbsentFile, subject |-> NoArtifact, body |-> NoArtifact, clock |-> None]

\* No run has ended, or the last one sent no notification.
NoLast == [page |-> NoTablePage, outcome |-> "none", reads_ok |-> TRUE, urls |-> {}]

\* The state before the first run, the job configured with c.
InitWith(c) ==
  /\ clock = StartClock
  /\ terms = c
  /\ results_file = AbsentFile
  /\ subject_file = NoArtifact
  /\ body_file = NoArtifact
  /\ runs = 0
  /\ pc = [p \in Procs |-> "idle"]
  /\ old_results = [p \in Procs |-> EmptyDict]
  /\ two_weeks_ago = [p \in Procs |-> None]
  /\ results = [p \in Procs |-> <<>>]
  /\ recent_new_results = [p \in Procs |-> <<>>]
  /\ timestamp = [p \in Procs |-> <<>>]
  /\ sent_results = [p \in Procs |-> EmptyDict]
  /\ exit_status = [p \in Procs |-> -1]
  /\ page = [p \in Procs |-> NoTablePage]
  /\ outcome = [p \in Procs |-> "none"]
  /\ at_start = [p \in Procs |-> NoFiles]
  /\ load_ok = [p \in Procs |-> TRUE]
  /\ reload_ok = [p \in Procs |-> TRUE]
  /\ filter_time = [p \in Procs |-> None]
  /\ concurrent = [p \in Procs |-> FALSE]
  /\ overwritten = [p \in Procs |-> {}]
  /\ last = NoLast
  /\ persisted = {}

Init == InitWith(search_terms)

Running(q) == pc[q] \notin {"idle", "done"}

(***************************************************************************)
(* The run of process p                                                    *)
(***************************************************************************)
\* main -> scrape_parking_auctions, lines 124-125: load the store, read the
\* clock.  At most limit runs start.
StartRun(p, limit) ==
  /\ pc[p] = "idle"
  /\ runs < limit
  /\ \E ok \in ReadOutcomes(results_file) :
       /\ old_results' = [old_results EXCEPT ![p] = load_sent_results(results_file, ok)]
       /\ load_ok' = [load_ok EXCEPT ![p] = ok]
  /\ two_weeks_ago' = [two_weeks_ago EXCEPT ![p] = MinusDays(clock, WindowDays)]
  /\ runs' = runs + 1
  /\ pc' = [pc EXCEPT ![p] = "fetch"]
  /\ exit_status' = [exit_status EXCEPT ![p] = -1]
  /\ at_start' = [at_start EXCEPT ![p] =
                    [results |-> results_file, subject |-> subject_file, body |-> body_file,
                     clock |-> clock]]
  /\ concurrent' = [q \in Procs |->
                      IF q = p THEN \E o \in Procs \ {p} : Running(o)
                      ELSE concurrent[q] \/ Running(q)]
  /\ UNCHANGED <<clock, terms, files, results, recent_new_results, timestamp, sent_results,
                 page, outcome, reload_ok, filter_time, overwritten, history>>

\* The process ends with the given status.
Exit(p, status, how) ==
  /\ pc' = [pc EXCEPT ![p] = "done"]
  /\ exit_status' = [exit_status EXCEPT ![p] = status]
  /\ outcome' = [outcome EXCEPT ![p] = how]

\* FetchFail with the error swallowed: the process ends with status 0.
FetchFail_status0(p) ==
  /\ pc[p] = "fetch"
  /\ Exit(p, 0, "fetch_failed")
  /\ UNCHANGED <<clock, terms, files, runs, locals, page, at_start, load_ok, reload_ok,
                 filter_time, overwritten, concurrent, history>>

\* Lines 129-130 raise requests.RequestException: lines 176-178, sys.exit(1).
FetchFail(p) ==
  /\ pc[p] = "fetch"
  /\ Exit(p, 1, "fetch_failed")
  /\ UNCHANGED <<clock, terms, files, runs, locals, page, at_start, load_ok, reload_ok,
                 filter_time, overwritten, concurrent, history>>

\* FetchNoTable with the missing table taken for an error.
FetchNoTable_error(p, pg) ==
  /\ pc[p] = "fetch"
  /\ ~pg.table
  /\ page' = [page EXCEPT ![p] = pg]
  /\ Exit(p, 1, "no_table")
  /\ UNCHANGED <<clock, terms, files, runs, locals, at_start, load_ok, reload_ok,
                 filter_time, overwritten, concurrent, history>>

\* Lines 129-134: the page has no table fisierePMI; return, and main returns 0.
FetchNoTable(p, pg) ==
  /\ pc[p] = "fetch"
  /\ ~pg.table
  /\ page' = [page EXCEPT ![p] = pg]
  /\ Exit(p, 0, "no_table")
  /\ UNCHANGED <<clock, terms, files, runs, locals, at_start, load_ok, reload_ok,
                 filter_time, overwritten, concurrent, history>>

\* Lines 136-145 raise on a row: lines 179-181, sys.exit(1).
FetchRaises(p, pg) ==
  /\ pc[p] = "fetch"
  /\ pg.table /\ ExtractRaises(pg.rows)
  /\ page' = [page EXCEPT ![p] = pg]
  /\ Exit(p, 1, "error")
  /\ UNCHANGED <<clock, terms, files, runs, locals, at_start, load_ok, reload_ok,
                 filter_time, overwritten, concurrent, history>>

\* Lines 129-174 when the fetch succeeds with page pg and its rows are read.
FetchPage(p, pg) ==
  /\ pc[p] = "fetch"
  /\ pg.table /\ ~ExtractRaises(pg.rows)
  /\ page' = [page EXCEPT ![p] = pg]
  /\ results' = [results EXCEPT ![p] = ResultsTable[terms][pg]]
  /\ recent_new_results' = [recent_new_results EXCEPT ![p] =
         SelectResults(ResultsTable[terms][pg], old_results[p], two_weeks_ago[p])]
  /\ filter_time' = [filter_time EXCEPT ![p] = clock]
  /\ IF recent_new_results'[p] # <<>>
     THEN /\ pc' = [pc EXCEPT ![p] = "subject"]   \* line 169
          /\ UNCHANGED <<exit_status, outcome>>
     ELSE Exit(p, 0, "no_new")                     \* lines 171-174
  /\ UNCHANGED <<clock, terms, files, runs, old_results, two_weeks_ago, timestamp,
                 sent_results, at_start, load_ok, reload_ok, overwritten, concurrent, history>>

\* Lines 71-76: write_file_output(SUBJECT_FILE, ...).
WriteSubject(p) ==
  /\ pc[p] = "subject"
  /\ subject_file' = Artifact(SubjectContent(recent_new_results[p]))
  /\ pc' = [pc EXCEPT ![p] = "body"]
  /\ UNCHANGED <<clock, terms, results_file, body_file, runs, locals, exit_status, observed,
                 concurrent, history>>

\* Lines 116-121 for SUBJECT_FILE: the write fails, sys.exit(1).
WriteSubjectFail(p) ==
  /\ pc[p] = "subject"
  /\ subject_file' \in FailedWrite(subject_file, PartialArtifact)
  /\ Exit(p, 1, "subject_failed")
  /\ UNCHANGED <<clock, terms, results_file, body_file, runs, locals, page, at_start,
                 load_ok, reload_ok, filter_time, overwritten, concurrent, history>>

\* Lines 79-100: write_file_output(BODY_FILE, ...).
WriteBody(p) ==
  /\ pc[p] = "body"
  /\ body_file' = Artifact(BodyContent(recent_new_results[p]))
  /\ pc' = [pc EXCEPT ![p] = "reload"]
  /\ UNCHANGED <<clock, terms, results_file, subject_file, runs, locals, exit_status,
                 observed, concurrent, history>>

\* WriteBodyFail in a program that records the rows before it writes the body.
WriteBodyFail_afterSave(p) ==
  /\ pc[p] = "body"
  /\ body_file' \in FailedWrite(body_file, PartialArtifact)
  /\ results_file' = JsonFile(MarkSent(old_results[p], recent_new_results[p], SentAt(clock)))
  /\ Exit(p, 1, "body_failed")
  /\ UNCHANGED <<clock, terms, subject_file, runs, locals, page, at_start,
                 load_ok, reload_ok, filter_time, overwritten, concurrent, history>>

\* Lines 116-121 for BODY_FILE: the write fails, sys.exit(1).
WriteBodyFail(p) ==
  /\ pc[p] = "body"
  /\ body_file' \in FailedWrite(body_file, PartialArtifact)
  /\ Exit(p, 1, "body_failed")
  /\ UNCHANGED <<clock, terms, results_file, subject_file, runs, locals, page, at_start,
                 load_ok, reload_ok, filter_time, overwritten, concurrent, history>>

\* Lines 106-107: the timestamp, and the store read again.
Reload(p) ==
  /\ pc[p] = "reload"
  /\ timestamp' = [timestamp EXCEPT ![p] = SentAt(clock)]
  /\ \E ok \in ReadOutcomes(results_file) :
       /\ sent_results' = [sent_results EXCEPT ![p] = load_sent_results(results_file, ok)]
       /\ reload_ok' = [reload_ok EXCEPT ![p] = ok]
  /\ pc' = [pc EXCEPT ![p] = "save"]
  /\ UNCHANGED <<clock, terms, files, runs, old_results, two_weeks_ago, results,
                 recent_new_results, exit_status, page, outcome, at_start, load_ok,
                 filter_time, overwritten, concurrent, history>>

\* Lines 108-112: the new records are put into the reloaded dict, which
\* save_results writes over the file; main returns 0.
Save(p) ==
  /\ pc[p] = "save"
  /\ sent_results' = [sent_results EXCEPT ![p] =
                        MarkSent(sent_results[p], recent_new_results[p], timestamp[p])]
  /\ results_file' = JsonFile(sent_results'[p])
  /\ overwritten' = [overwritten EXCEPT ![p] = KeysOf(results_file) \ DOMAIN sent_results'[p]]
  /\ Exit(p, 0, "notified")
  /\ UNCHANGED <<clock, terms, subject_file, body_file, runs, old_results, two_weeks_ago,
                 results, recent_new_results, timestamp, page, at_start, load_ok, reload_ok,
                 filter_time, concurrent, history>>

\* SaveFail with the failure taken for fatal: sys.exit(1).
SaveFail_fatal(p) ==
  /\ pc[p] = "save"
  /\ sent_results' = [sent_results EXCEPT ![p] =
                        MarkSent(sent_results[p], recent_new_results[p], timestamp[p])]
  /\ results_file' \in FailedWrite(results_file, CorruptFile)
  /\ Exit(p, 1, "save_failed")
  /\ UNCHANGED <<clock, terms, subject_file, body_file, runs, old_results, two_weeks_ago,
                 results, recent_new_results, timestamp, page, at_start, load_ok, reload_ok,
                 filter_time, overwritten, concurrent, history>>

\* Lines 56-60: the write of the store fails; the error is logged, the run
\* goes on to return True, and main returns 0.
SaveFail(p) ==
  /\ pc[p] = "save"
  /\ sent_results' = [sent_results EXCEPT ![p] =
                        MarkSent(sent_results[p], recent_new_results[p], timestamp[p])]
  /\ results_file' \in FailedWrite(results_file, CorruptFile)
  /\ Exit(p, 0, "save_failed")
  /\ UNCHANGED <<clock, terms, subject_file, body_file, runs, old_results, two_weeks_ago,
                 results, recent_new_results, timestamp, page, at_start, load_ok, reload_ok,
                 filter_time, overwritten, concurrent, history>>

\* The process is gone; the scheduler may start the next run.
EndRun(p) ==
  /\ pc[p] = "done"
  /\ pc' = [pc EXCEPT ![p] = "idle"]
  /\ last' = IF outcome[p] \in {"notified", "save_failed"}
              THEN [page |-> page[p], outcome |-> outcome[p],
                    reads_ok |-> load_ok[p] /\ reload_ok[p],
                    urls |-> {r.pdf_url : r \in Elems(recent_new_results[p])}]
              ELSE NoLast
  /\ persisted' = IF outcome[p] = "notified"
                   THEN persisted \cup {r.pdf_url : r \in Elems(recent_new_results[p])}
                   ELSE persisted
  /\ old_results' = [old_results EXCEPT ![p] = EmptyDict]
  /\ two_weeks_ago' = [two_weeks_ago EXCEPT ![p] = None]
  /\ results' = [results EXCEPT ![p] = <<>>]
  /\ recent_new_results' = [recent_new_results EXCEPT ![p] = <<>>]
  /\ timestamp' = [timestamp EXCEPT ![p] = <<>>]
  /\ sent_results' = [sent_results EXCEPT ![p] = EmptyDict]
  /\ exit_status' = [exit_status EXCEPT ![p] = -1]
  /\ page' = [page EXCEPT ![p] = NoTablePage]
  /\ outcome' = [outcome EXCEPT ![p] = "none"]
  /\ at_start' = [at_start EXCEPT ![p] = NoFiles]
  /\ load_ok' = [load_ok EXCEPT ![p] = TRUE]
  /\ reload_ok' = [reload_ok EXCEPT ![p] = TRUE]
  /\ filter_time' = [filter_time EXCEPT ![p] = None]
  /\ concurrent' = [concurrent EXCEPT ![p] = FALSE]
  /\ overwritten' = [overwritten EXCEPT ![p] = {}]
  /\ UNCHANGED <<clock, terms, files, runs>>

\* A second passes.  The clock is read by lines 125, 168 (as observed) and
\* 106, so it is enough that it advances when a process of procs is about to
\* run one of them.
Tick(procs) ==
  /\ clock.sec < MaxTicks
  /\ \E p \in procs : pc[p] \in {"idle", "fetch", "reload"}
  /\ clock' = PlusSeconds(clock, 1)
  /\ UNCHANGED <<terms, files, runs, pc, locals, exit_status, observed, concurrent, history>>

\* A step of process p, which fetches one of pages, in at most limit runs.
Step(p, pages, limit) ==
  \/ StartRun(p, limit)
  \/ FetchFail(p)
  \/ \E pg \in pages : FetchNoTable(p, pg)
  \/ \E pg \in pages : FetchRaises(p, pg)
  \/ \E pg \in pages : FetchPage(p, pg)
  \/ WriteSubject(p)
  \/ WriteSubjectFail(p)
  \/ WriteBody(p)
  \/ WriteBodyFail(p)
  \/ Reload(p)
  \/ Save(p)
  \/ SaveFail(p)
  \/ EndRun(p)

\* One run at a time: the scheduler starts the job again when it has ended.
Next == Step("A", SitePages, MaxRuns) \/ Tick({"A"})

Spec == Init /\ [][Next]_vars

\* A longer sequence of runs over fewer pages.
NextLong == Step("A", FewPages, MaxRuns + 1) \/ Tick({"A"})

SpecLong == Init /\ [][NextLong]_vars

\* Two jobs in the same working directory, with nothing to keep them apart.
NextConc == \E p \in Procs : Step(p, ConcPages, MaxRuns)

SpecConc == Init /\ [][NextConc]_vars

\* One run on a page of one row, over many titles and configurations.
InitMatch == \E c \in Configs : InitWith(c)

NextMatch == Step("A", MatchPages, 1) \/ Tick({"A"})

SpecMatch == InitMatch /\ [][NextMatch]_vars

(***************************************************************************)
(* Properties                                                              *)
(***************************************************************************)
\* The run of p has passed the filter of line 168.
Filtered(p) == filter_time[p] # None

\* The run of p has written both artifacts.
Notified(p) ==
  \/ pc[p] \in {"reload", "save"}
  \/ pc[p] = "done" /\ outcome[p] \in {"notified", "save_failed"}

\* The files are as they were when the run of p started.
FilesUntouched(p) ==
  /\ results_file = at_start[p].results
  /\ subject_file = at_start[p].subject
  /\ body_file = at_start[p].body

\* The URLs the body artifact links to.
BodyUrls == {body_file.content.entries[i].href : i \in 1..body_file.content.found}

\* C1: when the store read at the start of a run succeeded, the body the run
\* writes links to no URL that was a key of the store when the run started;
\* and a run that follows, on the same page, a run that notified and whose
\* reads and store write succeeded, finds nothing new and leaves the files
\* as they were.
C1_KnownUrlsNotNotified ==
  \A p \in Procs :
    /\ (Notified(p) /\ load_ok[p]) =>
          BodyUrls \cap KeysOf(at_start[p].results) = {}
    /\ (/\ last.outcome = "notified" /\ last.reads_ok
        /\ Filtered(p) /\ page[p] = last.page /\ load_ok[p]) =>
          /\ recent_new_results[p] = <<>>
          /\ pc[p] = "done" /\ outcome[p] = "no_new"
          /\ FilesUntouched(p)

\* A run is over that fetched the page of the notifying run before it, read
\* the store, matched rows and found none of them new.
C1_Witness ==
  \E p \in Procs :
    /\ pc[p] = "done" /\ outcome[p] = "no_new" /\ load_ok[p]
    /\ last.outcome = "notified" /\ last.reads_ok /\ page[p] = last.page
    /\ results[p] # <<>>
    /\ \A i \in 1..Len(results[p]) : results[p][i].pdf_url \in KeysOf(at_start[p].results)

\* C2: whenever the store is rewritten, every record it held is still there,
\* unchanged (a record once created is never updated or deleted).
C2_RecordsNeverChange ==
  [][results_file'.state = "json" =>
       \A k \in KeysOf(results_file) :
          k \in KeysOf(results_file') /\ results_file'.data[k] = results_file.data[k]]_vars

\* The seconds from datetime a to datetime b.
SecondsBetween(a, b) == (b.ord - a.ord) * SecondsPerDay + (b.sec - a.sec)

\* The rows of s that are dated, and dated at most 14 days before now.
WithinWindow(s, now) ==
  FilterSeq(s, {r \in Elems(s) :
                  r.date # None /\ SecondsBetween(r.date, now) <= WindowDays * SecondsPerDay})

\* C3 as stated: the filter keeps the not yet notified matched rows dated at
\* most 14 days before the clock at the time the filter runs.
C3_WindowFromFilterTime ==
  \A p \in Procs :
    Filtered(p) =>
      recent_new_results[p] = WithinWindow(NewResults(results[p], old_results[p]), filter_time[p])

\* C3 amended: the filter keeps the not yet notified matched rows dated at
\* most 14 days before the clock read at the start of the run (line 125,
\* before the fetch); rows without a date are dropped.
C3_WindowFromStartTime ==
  \A p \in Procs :
    Filtered(p) =>
      /\ recent_new_results[p] =
           WithinWindow(FilterSeq(results[p],
                                  {r \in Elems(results[p]) : r.pdf_url \notin DOMAIN old_results[p]}),
                        at_start[p].clock)
      /\ \A i \in 1..Len(recent_new_results[p]) :
            parse_date(recent_new_results[p][i].date_str) # None

\* The fetch took a second, and the filter kept a row dated exactly 14 days
\* before the start of the run, which is 14 days and 1 second before the
\* filter ran.
C3_Witness ==
  \E p \in Procs :
    /\ Filtered(p)
    /\ SecondsBetween(at_start[p].clock, filter_time[p]) = 1
    /\ \E i \in 1..Len(recent_new_results[p]) :
          SecondsBetween(recent_new_results[p][i].date, at_start[p].clock)
            = WindowDays * SecondsPerDay

\* Two characters are the same letter in either case, or the same character.
SameLetter(c, d) ==
  \/ c = d
  \/ \E i \in 1..Len(UpperChars) : {c, d} = {UpperChars[i], LowerChars[i]}

\* term occurs in title, case ignored.
OccursIgnoringCase(term, title) ==
  \E off \in 0..(Len(title) - Len(term)) :
     \A k \in 1..Len(term) : SameLetter(title[off + k], term[k])

\* The positions, in the configuration, of the pairs both of whose terms occur in title.
MatchingIndices(title, cfg) ==
  {i \in 1..Len(cfg) : OccursIgnoringCase(cfg[i][1], title) /\ OccursIgnoringCase(cfg[i][2], title)}

\* m holds the labels of the matching pairs, in the order of the configuration.
LabelsInOrder(m, title, cfg) ==
  LET I == MatchingIndices(title, cfg)
  IN /\ Len(m) = Cardinality(I)
     /\ \A j \in 1..Len(m) :
           \E k \in I : /\ Cardinality({i \in I : i <= k}) = j
                        /\ m[j] = Label(cfg[k][1], cfg[k][2])

\* The rows of the page of p that have two cells and a matching pair.
MatchedRows(p) ==
  {i \in 1..Len(page[p].rows) :
     /\ page[p].rows[i].ncols >= 2
     /\ MatchingIndices(Strip(page[p].rows[i].text), terms) # {}}

\* Result res is what row gives.
ResultOfRow(res, row) ==
  /\ res.title = Strip(row.text)
  /\ res.date_str = Strip(row.date_text)
  /\ LabelsInOrder(res.matched_terms, Strip(row.text), terms)

\* C4: the results hold one entry for each row of two cells or more whose
\* title has both terms of some configured pair as case-insensitive
\* substrings, and no other entry; the matched_terms of an entry are the
\* labels of exactly the pairs that match, in configuration order, and are
\* never empty.
C4_MatcherKeepsExactlyMatchingRows ==
  \A p \in Procs :
    Filtered(p) =>
      /\ Len(results[p]) = Cardinality(MatchedRows(p))
      /\ \A i \in MatchedRows(p) :
            \E j \in 1..Len(results[p]) : ResultOfRow(results[p][j], page[p].rows[i])
      /\ \A j \in 1..Len(results[p]) :
            /\ results[p][j].matched_terms # <<>>
            /\ \E i \in MatchedRows(p) : ResultOfRow(results[p][j], page[p].rows[i])

\* A row whose title is in another case than the terms matched two pairs of
\* the configuration of the program.
C4_Witness ==
  \E p \in Procs :
    /\ Filtered(p) /\ terms = search_terms
    /\ \E j \in 1..Len(results[p]) :
          /\ Len(results[p][j].matched_terms) = 2
          /\ ~Contains(results[p][j].title, sTudorNeculai)

\* C5: a run whose fetch fails ends with status 1 and leaves the subject
\* artifact, the body artifact and the store as they were.
C5_FetchFailureWritesNothing ==
  \A p \in Procs :
    outcome[p] = "fetch_failed" =>
      pc[p] = "done" /\ exit_status[p] = 1 /\ FilesUntouched(p)

\* A fetch failed in a run that started with a store and artifacts on disk.
C5_Witness ==
  \E p \in Procs :
    /\ outcome[p] = "fetch_failed"
    /\ results_file.state = "json" /\ body_file.state = "written"

\* C6: a run in which the write of the subject or of the body fails ends
\* with status 1 and leaves the store as it was; the rows it was about to
\* notify are not in the store (when its read of the store succeeded).
C6_ArtifactFailureKeepsStore ==
  \A p \in Procs :
    outcome[p] \in {"subject_failed", "body_failed"} =>
      /\ pc[p] = "done" /\ exit_status[p] = 1
      /\ results_file = at_start[p].results
      /\ timestamp[p] = <<>>
      /\ load_ok[p] =>
           \A i \in 1..Len(recent_new_results[p]) :
              recent_new_results[p][i].pdf_url \notin KeysOf(results_file)

\* The write of the body failed after the subject had been written, in a run
\* that started with a store on disk.
C6_Witness ==
  \E p \in Procs :
    /\ outcome[p] = "body_failed"
    /\ subject_file # at_start[p].subject
    /\ results_file.state = "json"

\* C7: a run whose store write fails after both artifacts were written ends
\* with status 0, both artifacts in place, and none of its records in the
\* store.
C7_SaveFailureIsNotFatal ==
  \A p \in Procs :
    outcome[p] = "save_failed" =>
      /\ pc[p] = "done" /\ exit_status[p] = 0
      /\ subject_file = Artifact(SubjectContent(recent_new_results[p]))
      /\ body_file = Artifact(BodyContent(recent_new_results[p]))
      /\ results_file \in {at_start[p].results, CorruptFile}

\* The run after one whose store write failed, on the same page, has written
\* both artifacts again for the same URLs.
C7_Witness ==
  \E p \in Procs :
    /\ last.outcome = "save_failed" /\ page[p] = last.page
    /\ Notified(p)
    /\ {recent_new_results[p][i].pdf_url : i \in 1..Len(recent_new_results[p])} = last.urls

\* C8: a run that finds no table, or no row that survives the filter, ends
\* with status 0 without calling the formatter or the state writer: the
\* subject artifact, the body artifact and the store are as they were.
C8_NothingNewWritesNothing ==
  \A p \in Procs :
    outcome[p] \in {"no_table", "no_new"} =>
      /\ pc[p] = "done" /\ exit_status[p] = 0
      /\ recent_new_results[p] = <<>>
      /\ timestamp[p] = <<>> /\ sent_results[p] = EmptyDict
      /\ FilesUntouched(p)

\* A run with files on disk from an earlier run matched rows of its page and
\* found none to notify.
C8_Witness ==
  \E p \in Procs :
    /\ outcome[p] = "no_new" /\ results[p] # <<>>
    /\ results_file.state = "json" /\ body_file.state = "written"

\* C9: a save whose reload succeeded removes a key from the store only when
\* another run was executing during the run that saves: two runs that
\* interleave can lose a record, runs one at a time cannot.
C9_LostUpdateNeedsOverlap ==
  \A p \in Procs :
    (pc[p] = "done" /\ outcome[p] = "notified" /\ reload_ok[p] /\ overwritten[p] # {})
      => concurrent[p]

\* A run whose reads both succeeded has saved the store without a record
\* that another run had written to it.
C9_Witness ==
  \E p \in Procs :
    /\ pc[p] = "done" /\ outcome[p] = "notified"
    /\ load_ok[p] /\ reload_ok[p]
    /\ overwritten[p] # {}
    /\ results_file.state = "json"
    /\ overwritten[p] \cap KeysOf(results_file) = {}

\* The store key of every row without an anchor.
AnchorlessKey == base_url \o "None"

\* C10: once a run has notified a row without an anchor and written its
\* record to the store, no later run whose read of the store succeeds
\* notifies a row without an anchor.
C10_AnchorlessNotifiedOnce ==
  \A p \in Procs :
    (AnchorlessKey \in persisted /\ load_ok[p] /\ Filtered(p)) =>
      \A i \in 1..Len(recent_new_results[p]) :
         recent_new_results[p][i].pdf_url # AnchorlessKey

====
